---- MODULE Spec2Model ----
(***************************************************************************)
(* css-to-vars (src/src/index.ts): scan stylesheet files, aggregate the    *)
(* literal values that recur, name them, and rewrite the files to refer    *)
(* to the generated custom properties.                                     *)
(*                                                                         *)
(* Text is modelled as TLA+ strings (sequences of characters): a file's    *)
(* content is one string with "\n" between its lines, exactly what         *)
(* fs.readFileSync returns.  Every regular expression of the source is an  *)
(* operator that returns the position after the match (0: no match).       *)
(***************************************************************************)
EXTENDS Integers, Sequences, FiniteSets, TLC

(***************************************************************************)
(* Bounds of the model.                                                    *)
(***************************************************************************)
MaxFiles == 2
MaxMin == 2

(***************************************************************************)
(* Characters and strings.                                                 *)
(***************************************************************************)
Char(s, i) == IF i >= 1 /\ i <= Len(s) THEN SubSeq(s, i, i) ELSE ""

DigitChars == {"0", "1", "2", "3", "4", "5", "6", "7", "8", "9"}
LowerChars == {"a", "b", "c", "d", "e", "f", "g", "h", "i", "j", "k", "l", "m",
               "n", "o", "p", "q", "r", "s", "t", "u", "v", "w", "x", "y", "z"}
UpperChars == {"A", "B", "C", "D", "E", "F", "G", "H", "I", "J", "K", "L", "M",
               "N", "O", "P", "Q", "R", "S", "T", "U", "V", "W", "X", "Y", "Z"}
\* [0-9a-fA-F]
HexChars == DigitChars \cup {"a", "b", "c", "d", "e", "f", "A", "B", "C", "D", "E", "F"}
\* \w
WordChars == DigitChars \cup LowerChars \cup UpperChars \cup {"_"}
\* \s (a line holds no line break)
WsChars == {" ", "\t"}
\* [\d.]
DigitDotChars == DigitChars \cup {"."}
\* [\w-]
PropChars == WordChars \cup {"-"}
\* [a-zA-Z0-9]
AlnumChars == DigitChars \cup LowerChars \cup UpperChars

UpperAlphabet == "ABCDEFGHIJKLMNOPQRSTUVWXYZ"
LowerAlphabet == "abcdefghijklmnopqrstuvwxyz"

LowerChar(c) ==
    IF c \in UpperChars
    THEN Char(LowerAlphabet, CHOOSE k \in 1..26 : Char(UpperAlphabet, k) = c)
    ELSE c

\* s.toLowerCase(), by halves
RECURSIVE toLowerCase(_)
toLowerCase(s) ==
    IF Len(s) = 0 THEN ""
    ELSE IF Len(s) = 1 THEN LowerChar(s)
    ELSE toLowerCase(SubSeq(s, 1, Len(s) \div 2))
         \o toLowerCase(SubSeq(s, (Len(s) \div 2) + 1, Len(s)))

\* s.startsWith(p) at position i
StartsWithAt(s, i, p) ==
    /\ i >= 1
    /\ i + Len(p) - 1 <= Len(s)
    /\ SubSeq(s, i, i + Len(p) - 1) = p

\* s.includes(p)
Includes(s, p) == \E i \in 1..(Len(s) + 1) : StartsWithAt(s, i, p)

\* the least element of a non-empty set of integers
Least(S) == CHOOSE x \in S : \A y \in S : x <= y

\* position after the longest run of characters of class at i (i itself: no run)
SkipWhile(s, i, class) ==
    IF Char(s, i) \notin class THEN i
    ELSE Least({j \in i..(Len(s) + 1) : Char(s, j) \notin class} \cup {Len(s) + 1})

\* position of the last character that is not of class, scanning down from j
SkipBack(s, j, class) ==
    LET stops == {k \in 0..j : Char(s, k) \notin class}
    IN  CHOOSE k \in stops : \A m \in stops : m <= k

\* s.trim()
trim(s) ==
    LET a == SkipWhile(s, 1, WsChars)
        b == SkipBack(s, Len(s), WsChars)
    IN  IF a > b THEN "" ELSE SubSeq(s, a, b)

\* content.split("\n")
RECURSIVE SplitFrom(_, _)
SplitFrom(s, start) ==
    LET breaks == {j \in start..Len(s) : Char(s, j) = "\n"}
    IN  IF breaks = {} THEN << SubSeq(s, start, Len(s)) >>
        ELSE << SubSeq(s, start, Least(breaks) - 1) >> \o SplitFrom(s, Least(breaks) + 1)

Split(s) == SplitFrom(s, 1)

\* lines.join("\n")
RECURSIVE Join(_)
Join(ls) ==
    IF Len(ls) = 0 THEN ""
    ELSE IF Len(ls) = 1 THEN ls[1]
    ELSE ls[1] \o "\n" \o Join(Tail(ls))

(***************************************************************************)
(* Regular-expression pieces.  A position 0 means "no match so far"; every *)
(* piece passes 0 on.  The classes that follow one another in the source's *)
(* patterns are disjoint, so the greedy match is the only match and no     *)
(* backtracking is lost.                                                   *)
(***************************************************************************)
\* a literal
Lit(s, i, p) == IF i # 0 /\ StartsWithAt(s, i, p) THEN i + Len(p) ELSE 0
\* class*
Star(s, i, class) == IF i = 0 THEN 0 ELSE SkipWhile(s, i, class)
\* class+
Plus(s, i, class) ==
    IF i = 0 THEN 0
    ELSE LET e == SkipWhile(s, i, class) IN IF e > i THEN e ELSE 0
\* literal? (an optional literal)
Opt(s, i, p) == IF i = 0 THEN 0 ELSE IF StartsWithAt(s, i, p) THEN i + Len(p) ELSE i

\* \b between the characters at p - 1 and p
WordBoundaryAt(s, p) == (Char(s, p - 1) \in WordChars) # (Char(s, p) \in WordChars)

\* COLOR_HEX = /#(?:[0-9a-fA-F]{3,8})\b/g : the longest count k of 3..8 hex
\* digits after which \b holds
HexEnd(s, i) ==
    LET n  == SkipWhile(s, i + 1, HexChars) - (i + 1)
        ks == {k \in 3..8 : k <= n /\ WordBoundaryAt(s, i + 1 + k)}
    IN  IF Char(s, i) = "#" /\ ks # {}
        THEN i + 1 + (CHOOSE k \in ks : \A j \in ks : j <= k)
        ELSE 0

\* (?:,\s*[\d.]+\s*)?\) : the optional alpha channel and the closing bracket
AlphaClose(s, p) ==
    LET g == Star(s, Plus(s, Star(s, Lit(s, p, ","), WsChars), DigitDotChars), WsChars)
    IN  IF Lit(s, g, ")") # 0 THEN Lit(s, g, ")") ELSE Lit(s, p, ")")

\* \s*\d+\s*
Channel(s, p) == Star(s, Plus(s, Star(s, p, WsChars), DigitChars), WsChars)
\* \s*[\d.]+%\s*
PctChannel(s, p) ==
    Star(s, Lit(s, Plus(s, Star(s, p, WsChars), DigitDotChars), "%"), WsChars)

\* COLOR_RGB = /rgba?\(\s*\d+\s*,\s*\d+\s*,\s*\d+\s*(?:,\s*[\d.]+\s*)?\)/g
RgbEnd(s, i) ==
    LET open == Lit(s, Opt(s, Lit(s, i, "rgb"), "a"), "(")
        c1   == Lit(s, Channel(s, open), ",")
        c2   == Lit(s, Channel(s, c1), ",")
        c3   == Channel(s, c2)
    IN  AlphaClose(s, c3)

\* COLOR_HSL = /hsla?\(\s*\d+\s*,\s*[\d.]+%\s*,\s*[\d.]+%\s*(?:,\s*[\d.]+\s*)?\)/g
HslEnd(s, i) ==
    LET open == Lit(s, Opt(s, Lit(s, i, "hsl"), "a"), "(")
        c1   == Lit(s, Channel(s, open), ",")
        c2   == Lit(s, PctChannel(s, c1), ",")
        c3   == PctChannel(s, c2)
    IN  AlphaClose(s, c3)

NamedColors ==
    << "red", "blue", "green", "orange", "purple", "pink", "brown", "gray",
       "grey", "black", "white", "yellow", "cyan", "magenta", "navy", "teal",
       "olive", "maroon", "aqua", "lime", "silver", "fuchsia" >>

\* COLOR_NAMED = /\b(red|...|fuchsia)\b/gi : the first alternative that
\* matches between two word boundaries
NamedEnd(s, i) ==
    LET hits == {k \in 1..Len(NamedColors) :
                    /\ i + Len(NamedColors[k]) - 1 <= Len(s)
                    /\ LowerChar(Char(s, i)) = Char(NamedColors[k], 1)
                    /\ toLowerCase(SubSeq(s, i, i + Len(NamedColors[k]) - 1)) = NamedColors[k]
                    /\ WordBoundaryAt(s, i + Len(NamedColors[k]))}
    IN  IF WordBoundaryAt(s, i) /\ hits # {}
        THEN i + Len(NamedColors[CHOOSE k \in hits : \A j \in hits : k <= j])
        ELSE 0

Units == << "px", "rem", "em", "vh", "vw", "%" >>

\* end of the number (\d+(?:\.\d+)?) that starts at i, 0 when none
NumberEnd(s, i) ==
    LET a == Plus(s, i, DigitChars)
        f == Plus(s, Lit(s, a, "."), DigitChars)
    IN  IF f # 0 THEN f ELSE a

\* the unit (px|rem|em|vh|vw|%) at position p: its index in Units, 0 when none
UnitAt(s, p) ==
    LET hits == {k \in 1..Len(Units) : p # 0 /\ StartsWithAt(s, p, Units[k])}
    IN  IF hits = {} THEN 0 ELSE CHOOSE k \in hits : \A j \in hits : k <= j

\* SPACING = /(?<!\w)(\d+(?:\.\d+)?)(px|rem|em|vh|vw|%)\b/g.  When the
\* fraction is followed by no unit the engine retries without the fraction.
SpacingNumEnd(s, i) ==
    LET a == Plus(s, i, DigitChars)
        f == NumberEnd(s, i)
        ok(p) == p # 0 /\ UnitAt(s, p) # 0
                       /\ WordBoundaryAt(s, p + Len(Units[UnitAt(s, p)]))
    IN  IF Char(s, i - 1) \in WordChars THEN 0
        ELSE IF ok(f) THEN f
        ELSE IF ok(a) THEN a
        ELSE 0

SpacingEnd(s, i) ==
    LET p == SpacingNumEnd(s, i)
    IN  IF p = 0 THEN 0 ELSE p + Len(Units[UnitAt(s, p)])

\* FONT_FAMILY = /font-family\s*:\s*([^;]+)/g : the position after the
\* colon, 0 when the pattern does not match at i
FontColon(s, i) == Lit(s, Star(s, Lit(s, i, "font-family"), WsChars), ":")

\* position of the first c from i on, the position after s when there is none
SkipUntil(s, i, c) ==
    Least({j \in i..(Len(s) + 1) : Char(s, j) = c} \cup {Len(s) + 1})

\* the match needs one character other than ";" after the colon; \s* gives
\* back a blank to the group when nothing else is left for it
FontEnd(s, i) ==
    LET p == FontColon(s, i)
        r == SkipUntil(s, p, ";")
    IN  IF p # 0 /\ r > p THEN r ELSE 0

\* the position after the match of pattern `kind` at i
MatchEnd(kind, s, i) ==
    CASE kind = "hex"     -> HexEnd(s, i)
      [] kind = "rgb"     -> RgbEnd(s, i)
      [] kind = "hsl"     -> HslEnd(s, i)
      [] kind = "named"   -> NamedEnd(s, i)
      [] kind = "spacing" -> SpacingEnd(s, i)
      [] kind = "font"    -> FontEnd(s, i)

\* while ((match = regex.exec(line)) !== null): the matches from left to
\* right, each search resuming where the previous match ended
RECURSIVE ExecAll(_, _, _)
ExecAll(kind, s, i) ==
    LET starts == {j \in i..Len(s) : MatchEnd(kind, s, j) > j}
    IN  IF starts = {} THEN << >>
        ELSE LET from == Least(starts)
                 e    == MatchEnd(kind, s, from)
             IN  << [from |-> from, to |-> e - 1] >> \o ExecAll(kind, s, e)

(***************************************************************************)
(* extractValues and addValue.  A Map is a sequence of entries in          *)
(* insertion order (the order a JavaScript Map iterates in), with at most  *)
(* one entry per key.                                                      *)
(***************************************************************************)
\* match[0].replace(/\s+/g, " ")
RECURSIVE CollapseWs(_, _)
CollapseWs(s, i) ==
    IF i > Len(s) THEN ""
    ELSE IF Char(s, i) \in WsChars
         THEN " " \o CollapseWs(s, SkipWhile(s, i, WsChars))
         ELSE Char(s, i) \o CollapseWs(s, i + 1)

RECURSIVE DigitsValue(_)
DigitsValue(d) ==
    IF Len(d) = 0 THEN 0
    ELSE 10 * DigitsValue(SubSeq(d, 1, Len(d) - 1))
         + (CHOOSE k \in 0..9 : Char("0123456789", k + 1) = Char(d, Len(d)))

\* parseFloat(num) === k, for a num of the shape \d+(?:\.\d+)? and an integer k
ParseFloatIs(num, k) ==
    LET a == SkipWhile(num, 1, DigitChars)
    IN  /\ DigitsValue(SubSeq(num, 1, a - 1)) = k
        /\ \A j \in (a + 1)..Len(num) : Char(num, j) = "0"

\* line.match(/^\s*([\w-]+)\s*:/), "unknown" when it does not match
PropertyOf(line) ==
    LET a == SkipWhile(line, 1, WsChars)
        b == Plus(line, a, PropChars)
    IN  IF Lit(line, Star(line, b, WsChars), ":") # 0
        THEN SubSeq(line, a, b - 1)
        ELSE "unknown"

\* /color|background|border|shadow|outline/i.test(property)
IsColorProperty(property) ==
    LET p == toLowerCase(property)
    IN  \E w \in {"color", "background", "border", "shadow", "outline"} : Includes(p, w)

\* /margin|padding|gap|width|height|top|left|right|bottom|border-radius|font-size/i.test(property)
IsSpacingProperty(property) ==
    LET p == toLowerCase(property)
    IN  \E w \in {"margin", "padding", "gap", "width", "height", "top", "left",
                  "right", "bottom", "border-radius", "font-size"} : Includes(p, w)

\* the lines extractValues skips: custom properties, comments, var() references
IsSkipped(line) ==
    LET t == trim(line)
    IN  \/ \E p \in {"--", "/*", "*", "//"} : StartsWithAt(t, 1, p)
        \/ Includes(line, "var(")

\* the text of a match
Text(line, m) == SubSeq(line, m.from, m.to)

RECURSIVE MapSeq(_, _, _, _)
\* the values (of one pattern, in match order) as [value, type] pairs
MapSeq(kind, line, ms, k) ==
    IF k > Len(ms) THEN << >>
    ELSE LET t == Text(line, ms[k])
             v == CASE kind \in {"hex", "named"} -> << [value |-> toLowerCase(t), type |-> "color"] >>
                    [] kind \in {"rgb", "hsl"}   -> << [value |-> CollapseWs(t, 1), type |-> "color"] >>
                    [] kind = "spacing" ->
                         LET e    == SpacingNumEnd(line, ms[k].from)
                             num  == SubSeq(line, ms[k].from, e - 1)
                             unit == Units[UnitAt(line, e)]
                         IN  IF \/ ParseFloatIs(num, 0)
                                \/ (unit = "%" /\ (ParseFloatIs(num, 100) \/ ParseFloatIs(num, 50)))
                                \/ (unit = "px" /\ ParseFloatIs(num, 1))
                                \/ ~IsSpacingProperty(PropertyOf(line))
                             THEN << >>
                             ELSE << [value |-> num \o unit, type |-> "spacing"] >>
                    [] kind = "font" ->
                         LET val == trim(SubSeq(line, FontColon(line, ms[k].from), ms[k].to))
                         IN  IF Len(val) > 2
                             THEN << [value |-> val, type |-> "font"] >>
                             ELSE << >>
         IN  v \o MapSeq(kind, line, ms, k + 1)

Found(kind, line) == MapSeq(kind, line, ExecAll(kind, line, 1), 1)

\* what one line contributes, in the order the loop body of extractValues
\* calls addValue: hex, rgb, hsl, named colors, then spacing, then fonts
LineValues(line, scope) ==
    IF Len(line) = 0 \/ IsSkipped(line) THEN << >>
    ELSE (IF scope \in {"colors", "all"}
          THEN Found("hex", line) \o Found("rgb", line) \o Found("hsl", line)
               \o (IF IsColorProperty(PropertyOf(line)) THEN Found("named", line) ELSE << >>)
          ELSE << >>)
         \o (IF scope \in {"spacing", "all"} THEN Found("spacing", line) ELSE << >>)
         \o (IF scope = "all" THEN Found("font", line) ELSE << >>)

\* map.get(key): the index of key's entry, 0 when there is none
IndexOfKey(map, key) ==
    IF \E k \in 1..Len(map) : map[k].value = key
    THEN CHOOSE k \in 1..Len(map) : map[k].value = key
    ELSE 0

addValue(map, value, type, file, line, property) ==
    LET k   == IndexOfKey(map, value)
        loc == [file |-> file, line |-> line, property |-> property]
    IN  IF k # 0
        THEN [map EXCEPT ![k].locations = Append(@, loc)]
        ELSE Append(map, [value |-> value, type |-> type, locations |-> << loc >>])

RECURSIVE AddLine(_, _, _, _, _, _)
AddLine(map, found, k, file, lineNum, property) ==
    IF k > Len(found) THEN map
    ELSE AddLine(addValue(map, found[k].value, found[k].type, file, lineNum, property),
                 found, k + 1, file, lineNum, property)

RECURSIVE ExtractFrom(_, _, _, _, _)
ExtractFrom(map, lines, lineNum, file, scope) ==
    IF lineNum > Len(lines) THEN map
    ELSE ExtractFrom(AddLine(map, LineValues(lines[lineNum], scope), 1, file, lineNum,
                             PropertyOf(lines[lineNum])),
                     lines, lineNum + 1, file, scope)

extractValues(content, filePath, scope) ==
    ExtractFrom(<< >>, Split(content), 1, filePath, scope)

\* MergeValues with the later file's entry spread over the existing one:
\* the type of the last file wins
RECURSIVE MergeValuesLastWins(_, _, _)
MergeValuesLastWins(all, fileValues, k) ==
    IF k > Len(fileValues) THEN all
    ELSE LET j == IndexOfKey(all, fileValues[k].value)
         IN  MergeValuesLastWins(
                 IF j # 0
                 THEN [all EXCEPT ![j].locations = @ \o fileValues[k].locations,
                                  ![j].type = fileValues[k].type]
                 ELSE Append(all, fileValues[k]),
                 fileValues, k + 1)

\* main's merge of one file's values into allValues
RECURSIVE MergeValues(_, _, _)
MergeValues(all, fileValues, k) ==
    IF k > Len(fileValues) THEN all
    ELSE LET j == IndexOfKey(all, fileValues[k].value)
         IN  MergeValues(IF j # 0
                         THEN [all EXCEPT ![j].locations = @ \o fileValues[k].locations]
                         ELSE Append(all, fileValues[k]),
                         fileValues, k + 1)

(***************************************************************************)
(* Selection and naming.                                                   *)
(***************************************************************************)
\* Select with the comparison off by one: more than min locations
RECURSIVE SelectAbove(_, _)
SelectAbove(all, min) ==
    IF Len(all) = 0 THEN << >>
    ELSE LET front == SelectAbove(SubSeq(all, 1, Len(all) - 1), min)
             last  == all[Len(all)]
         IN  IF Len(last.locations) > min THEN Append(front, last) ELSE front

\* main's filter: the entries with at least min locations, in map order
RECURSIVE Select(_, _)
Select(all, min) ==
    IF Len(all) = 0 THEN << >>
    ELSE LET front == Select(SubSeq(all, 1, Len(all) - 1), min)
             last  == all[Len(all)]
         IN  IF Len(last.locations) >= min THEN Append(front, last) ELSE front

\* `${n}` for a natural number n
RECURSIVE NatToString(_)
NatToString(n) ==
    IF n < 10 THEN Char("0123456789", n + 1)
    ELSE NatToString(n \div 10) \o Char("0123456789", (n % 10) + 1)

\* value.replace(/[^a-zA-Z0-9]/g, "-")
RECURSIVE Sanitize(_)
Sanitize(s) ==
    IF Len(s) = 0 THEN ""
    ELSE IF Len(s) = 1 THEN (IF s \in AlnumChars THEN s ELSE "-")
    ELSE Sanitize(SubSeq(s, 1, Len(s) \div 2))
         \o Sanitize(SubSeq(s, (Len(s) \div 2) + 1, Len(s)))

\* value.replace(/["']/g, "")
RECURSIVE StripQuotes(_)
StripQuotes(s) ==
    IF Len(s) = 0 THEN ""
    ELSE IF Len(s) = 1 THEN (IF s \in {"\"", "'"} THEN "" ELSE s)
    ELSE StripQuotes(SubSeq(s, 1, Len(s) \div 2))
         \o StripQuotes(SubSeq(s, (Len(s) \div 2) + 1, Len(s)))

\* s.replace(/\s+/g, "-")
RECURSIVE HyphenateWs(_, _)
HyphenateWs(s, i) ==
    IF i > Len(s) THEN ""
    ELSE IF Char(s, i) \in WsChars
         THEN "-" \o HyphenateWs(s, SkipWhile(s, i, WsChars))
         ELSE Char(s, i) \o HyphenateWs(s, i + 1)

\* value.replace(/["']/g, "").split(",")[0].trim().toLowerCase().replace(/\s+/g, "-")
FontCleaned(value) ==
    LET q == StripQuotes(value)
    IN  HyphenateWs(toLowerCase(trim(SubSeq(q, 1, SkipUntil(q, 1, ",") - 1))), 1)

generateVarName(prefix, type, value, index) ==
    LET name == "--" \o prefix \o "-" \o type
        hex  == toLowerCase(value)
    IN  CASE type = "color" ->
               IF hex = "#fff" \/ hex = "#ffffff" THEN "--" \o prefix \o "-color-white"
               ELSE IF hex = "#000" \/ hex = "#000000" THEN "--" \o prefix \o "-color-black"
               ELSE name \o "-" \o NatToString(index + 1)
          [] type = "spacing" -> name \o "-" \o Sanitize(value)
          [] type = "font" -> name \o "-" \o FontCleaned(value)
          [] OTHER -> name \o "-" \o NatToString(index + 1)

\* Map.set(key, val): an existing key keeps its place and takes the new value
MapSet(map, key, val) ==
    IF \E k \in 1..Len(map) : map[k].key = key
    THEN [map EXCEPT ![CHOOSE k \in 1..Len(map) : map[k].key = key].val = val]
    ELSE Append(map, [key |-> key, val |-> val])

\* main's naming loop over `repeated`: idx = counters[info.type]++
RECURSIVE NameFrom(_, _, _, _)
NameFrom(repeated, k, prefix, acc) ==
    IF k > Len(repeated) THEN acc
    ELSE LET info    == repeated[k]
             index   == acc.counters[info.type]
             varName == generateVarName(prefix, info.type, info.value, index)
         IN  NameFrom(repeated, k + 1, prefix,
                      [counters |-> [acc.counters EXCEPT ![info.type] = @ + 1],
                       varMap   |-> MapSet(acc.varMap, info.value, varName),
                       rootVars |-> MapSet(acc.rootVars, varName, info.value)])

NameAll(repeated, prefix) ==
    NameFrom(repeated, 1, prefix,
             [counters |-> [color |-> 0, spacing |-> 0, font |-> 0],
              varMap |-> << >>, rootVars |-> << >>])

(***************************************************************************)
(* generateRootBlock.                                                      *)
(***************************************************************************)
\* the group generateRootBlock files a variable under ("" : none)
GroupOf(varName, prefix) ==
    IF Includes(varName, "-" \o prefix \o "-color") THEN "color"
    ELSE IF Includes(varName, "-" \o prefix \o "-spacing") THEN "spacing"
    ELSE IF Includes(varName, "-" \o prefix \o "-font") THEN "font"
    ELSE ""

RECURSIVE GroupLines(_, _, _)
\* `  ${name}: ${val};` for the variables of one group, in map order
GroupLines(variables, prefix, group) ==
    IF Len(variables) = 0 THEN << >>
    ELSE LET front == GroupLines(SubSeq(variables, 1, Len(variables) - 1), prefix, group)
             e     == variables[Len(variables)]
         IN  IF GroupOf(e.key, prefix) = group
             THEN Append(front, "  " \o e.key \o ": " \o e.val \o ";")
             ELSE front

Section(variables, prefix, group, title) ==
    LET ls == GroupLines(variables, prefix, group)
    IN  IF Len(ls) > 0 THEN << title >> \o ls ELSE << >>

generateRootBlock(variables, prefix) ==
    Join(<< ":root {" >>
         \o Section(variables, prefix, "color", "  /* Colors */")
         \o Section(variables, prefix, "spacing", "  /* Spacing */")
         \o Section(variables, prefix, "font", "  /* Fonts */")
         \o << "}" >>)

(***************************************************************************)
(* The rewriting of one file.                                              *)
(***************************************************************************)
\* the characters value.replace(/[.*+?^${}()|[\]\\]/g, "\\$&") escapes
SpecialChars == {".", "*", "+", "?", "^", "$", "{", "}", "(", ")", "|", "[", "]", "\\"}

RECURSIVE Escape(_)
Escape(value) ==
    IF Len(value) = 0 THEN ""
    ELSE IF Len(value) = 1 THEN (IF value \in SpecialChars THEN "\\" \o value ELSE value)
    ELSE Escape(SubSeq(value, 1, Len(value) \div 2))
         \o Escape(SubSeq(value, (Len(value) \div 2) + 1, Len(value)))

\* new RegExp(escaped, "g") at position i of s: an escaped character is
\* itself, an unescaped "." is any character of the line, any other
\* character is itself.  The position after the match, 0 when there is none.
RECURSIVE RegExpEnd(_, _, _, _)
RegExpEnd(pattern, k, s, i) ==
    IF k > Len(pattern) THEN i
    ELSE IF i > Len(s) THEN 0
    ELSE IF Char(pattern, k) = "\\"
         THEN IF Char(pattern, k + 1) = Char(s, i)
              THEN RegExpEnd(pattern, k + 2, s, i + 1) ELSE 0
    ELSE IF Char(pattern, k) = "."
         THEN IF Char(s, i) # "\n" THEN RegExpEnd(pattern, k + 1, s, i + 1) ELSE 0
    ELSE IF Char(pattern, k) = Char(s, i)
         THEN RegExpEnd(pattern, k + 1, s, i + 1) ELSE 0

\* content.match(regex) and content.replace(regex, replacement): the text
\* with every match replaced, left to right, and the number of matches
RECURSIVE ReplaceFrom(_, _, _, _)
ReplaceFrom(content, i, pattern, replacement) ==
    LET starts == {j \in i..Len(content) : RegExpEnd(pattern, 1, content, j) > j}
    IN  IF starts = {} THEN [text |-> SubSeq(content, i, Len(content)), count |-> 0]
        ELSE LET from == Least(starts)
                 rest == ReplaceFrom(content, RegExpEnd(pattern, 1, content, from),
                                     pattern, replacement)
             IN  [text  |-> SubSeq(content, i, from - 1) \o replacement \o rest.text,
                  count |-> rest.count + 1]

\* the reference put in place of a literal.  (String.prototype.replace reads
\* "$&", "$1", ... in its replacement; no name generated here holds a "$".)
Reference(varName) == "var(" \o varName \o ")"

\* the loop over varMap of main's apply phase, from entry k on
RECURSIVE RewriteFrom(_, _, _)
RewriteFrom(acc, varMap, k) ==
    IF k > Len(varMap) THEN acc
    ELSE LET r == ReplaceFrom(acc.content, 1, Escape(varMap[k].key), Reference(varMap[k].val))
         IN  RewriteFrom(IF r.count > 0
                         THEN [content  |-> r.text,
                               count    |-> acc.count + r.count,
                               modified |-> TRUE,
                               hit      |-> acc.hit \cup {varMap[k].key}]
                         ELSE acc,
                         varMap, k + 1)

\* content, replacements and modified after the loop; hit: the values replaced
Rewrite(content, varMap) ==
    RewriteFrom([content |-> content, count |-> 0, modified |-> FALSE, hit |-> {}],
                varMap, 1)

\* the text written back: the :root block goes first when there is none
WithRootBlock(content, rootBlock) ==
    IF ~Includes(content, ":root") THEN rootBlock \o "\n\n" \o content ELSE content

(***************************************************************************)
(* The run: main().                                                        *)
(*                                                                         *)
(* files      the stylesheet files on disk, in the order findCssFiles      *)
(*            lists them (a file's index stands for its path)              *)
(* opts       the parsed command line                                      *)
(* pc         where main is: "scan", "select", "report", "apply", then     *)
(*            "done" (main returned), "exit0" / "exit1" (process.exit) or  *)
(*            "crashed" (an exception left main)                           *)
(* idx        the file the current loop is at                              *)
(* allValues, repeated, varMap, rootVars, rootBlock, totalReplacements     *)
(*            main's locals of these names                                 *)
(* updated    the files reported as "Updated"                              *)
(* summary    the replacement count of the closing "Done!" line, << >>     *)
(*            while no such line was printed                               *)
(* writeFailed  the files whose fs.writeFileSync threw                     *)
(* orig       the files as they were when the first run started            *)
(* pass       1 in the first run over `orig`, 2 in a run over its output   *)
(* hit        the values the runs so far replaced in a file they wrote,    *)
(*            per pass                                                     *)
(***************************************************************************)
VARIABLES files, opts, pc, idx, allValues, repeated, varMap, rootVars, rootBlock,
          totalReplacements, updated, summary, writeFailed, orig, pass, hit

vars == << files, opts, pc, idx, allValues, repeated, varMap, rootVars, rootBlock,
           totalReplacements, updated, summary, writeFailed, orig, pass, hit >>

\* The stylesheets the runs are given.
FilePool ==
    { "color: #fff;\nborder-top: 2px solid white;\n",
      "/* #fff */\ncolor: #FFF;\n",
      "color: #ffffff;\nfont-family: #ffffff;\n",
      "font-family: white;\ncolor: white;\n",
      "margin: 16px;\npadding: 16px 6px;\n",
      ":root {\n  --x: #fff;\n}\ncolor: #fff;\n" }

FileLists == UNION {[1..n -> FilePool] : n \in 0..MaxFiles}

Scopes == {"colors", "spacing", "all"}
Prefixes == {"cv"}

Options ==
    [dryRun : BOOLEAN, json : BOOLEAN, min : 1..MaxMin, scope : Scopes, prefix : Prefixes]

Init ==
    /\ files \in FileLists
    /\ opts \in Options
    /\ orig = files
    /\ pc = "scan"
    /\ idx = 1
    /\ allValues = << >>
    /\ repeated = << >>
    /\ varMap = << >>
    /\ rootVars = << >>
    /\ rootBlock = ""
    /\ totalReplacements = 0
    /\ updated = {}
    /\ summary = << >>
    /\ writeFailed = {}
    /\ pass = 1
    /\ hit = [p \in {1, 2} |-> {}]

\* cssFiles.length === 0: process.exit(1)
NoFiles ==
    /\ pc = "scan"
    /\ Len(files) = 0
    /\ pc' = "exit1"
    /\ UNCHANGED << files, opts, idx, allValues, repeated, varMap, rootVars, rootBlock,
                    totalReplacements, updated, summary, writeFailed, orig, pass, hit >>

\* one turn of "for (const file of cssFiles)": read, extract, merge
ScanFile ==
    /\ pc = "scan"
    /\ idx <= Len(files)
    /\ allValues' = MergeValues(allValues, extractValues(files[idx], idx, opts.scope), 1)
    /\ idx' = idx + 1
    /\ pc' = IF idx = Len(files) THEN "select" ELSE "scan"
    /\ UNCHANGED << files, opts, repeated, varMap, rootVars, rootBlock,
                    totalReplacements, updated, summary, writeFailed, orig, pass, hit >>

\* the filter by opts.min, then either "No repeated values" and
\* process.exit(0) or the naming loop
SelectAndName ==
    /\ pc = "select"
    /\ LET rep   == Select(allValues, opts.min)
           named == NameAll(rep, opts.prefix)
       IN  /\ repeated' = rep
           /\ IF Len(rep) = 0
              THEN /\ pc' = "exit0"
                   /\ UNCHANGED << varMap, rootVars >>
              ELSE /\ pc' = "report"
                   /\ varMap' = named.varMap
                   /\ rootVars' = named.rootVars
    /\ UNCHANGED << files, opts, idx, allValues, rootBlock,
                    totalReplacements, updated, summary, writeFailed, orig, pass, hit >>

\* AfterReport without the test of opts.dryRun
AfterReportAlwaysApply(o) == "apply"

\* where main goes after it has printed the :root block
AfterReport(o) == IF o.dryRun THEN "done" ELSE "apply"

\* the report: the JSON document and process.exit(0), or the listing and
\* the :root block, after which a dry run is over
Report ==
    /\ pc = "report"
    /\ rootBlock' = generateRootBlock(rootVars, opts.prefix)
    /\ pc' = IF opts.json THEN "exit0" ELSE AfterReport(opts)
    /\ idx' = 1
    /\ totalReplacements' = 0
    /\ UNCHANGED << files, opts, allValues, repeated, varMap, rootVars,
                    updated, summary, writeFailed, orig, pass, hit >>

\* what the loop over the files leaves behind after file idx
NextFile(total) ==
    /\ idx' = idx + 1
    /\ totalReplacements' = total
    /\ IF idx = Len(files)
       THEN pc' = "done" /\ summary' = << total >>
       ELSE pc' = "apply" /\ UNCHANGED summary

\* one turn of the apply loop in which no write fails: the file is
\* rewritten in memory and, when modified, written back
ApplyFile ==
    /\ pc = "apply"
    /\ idx <= Len(files)
    /\ LET r == Rewrite(files[idx], varMap)
       IN  /\ NextFile(totalReplacements + r.count)
           /\ IF r.modified
              THEN /\ files' = [files EXCEPT ![idx] = WithRootBlock(r.content, rootBlock)]
                   /\ updated' = updated \cup {idx}
                   /\ hit' = [hit EXCEPT ![pass] = @ \cup r.hit]
              ELSE UNCHANGED << files, updated, hit >>
    /\ UNCHANGED << opts, allValues, repeated, varMap, rootVars, rootBlock,
                    writeFailed, orig, pass >>

\* one turn of the apply loop in which fs.writeFileSync throws: nothing
\* catches the exception, so it leaves main
ApplyFileWriteRejected ==
    /\ pc = "apply"
    /\ idx <= Len(files)
    /\ LET r == Rewrite(files[idx], varMap)
       IN  /\ r.modified
           /\ totalReplacements' = totalReplacements + r.count
    /\ writeFailed' = writeFailed \cup {idx}
    /\ pc' = "crashed"
    /\ UNCHANGED << files, opts, idx, allValues, repeated, varMap, rootVars, rootBlock,
                    updated, summary, orig, pass, hit >>

Next ==
    \/ NoFiles
    \/ ScanFile
    \/ SelectAndName
    \/ Report
    \/ ApplyFile
    \/ ApplyFileWriteRejected

Spec == Init /\ [][Next]_vars

\* The scan loop alone, which is all that builds allValues: it reads
\* opts.scope and none of the other options.
InitScan == Init /\ opts.min = 1 /\ ~opts.dryRun /\ ~opts.json

NextScan == NoFiles \/ ScanFile

SpecScan == InitScan /\ [][NextScan]_vars

\* the tool is run once more, with the same command line, over the files
\* a finished non-preview run left on disk
RunAgain ==
    /\ pc = "done"
    /\ ~opts.dryRun
    /\ pass = 1
    /\ pass' = 2
    /\ pc' = "scan"
    /\ idx' = 1
    /\ allValues' = << >>
    /\ repeated' = << >>
    /\ varMap' = << >>
    /\ rootVars' = << >>
    /\ rootBlock' = ""
    /\ totalReplacements' = 0
    /\ updated' = {}
    /\ summary' = << >>
    /\ UNCHANGED << files, opts, writeFailed, orig, hit >>

NextTwice == Next \/ RunAgain

SpecTwice == Init /\ [][NextTwice]_vars

(***************************************************************************)
(* Properties.                                                             *)
(***************************************************************************)
\* the number of files the scan loop has merged into allValues
Scanned == IF pc = "scan" THEN idx - 1 ELSE Len(orig)

\* naming has run: varMap holds one entry per selected value
Named == Len(repeated) > 0 /\ Len(varMap) = Len(repeated)

\* the name varMap gives a value
NameOf(value) == varMap[CHOOSE k \in 1..Len(varMap) : varMap[k].key = value].val

\* the sum of f over 1..n
RECURSIVE SumTo(_, _)
SumTo(f, n) == IF n = 0 THEN 0 ELSE SumTo(f, n - 1) + f[n]

\* the replacements a non-preview run counts over the original files
ReplacementsOnOriginals ==
    SumTo([i \in 1..Len(orig) |-> Rewrite(orig[i], varMap).count], Len(orig))

(* C1: in a run with --dry-run no input file is written: every file's      *)
(* content stays what it was before the run, whatever the other options.   *)
C1_DryRunWritesNothing == opts.dryRun => files = orig

\* a finished dry run over files the apply phase would have modified
C1_Witness ==
    /\ opts.dryRun
    /\ pc = "done"
    /\ \E i \in 1..Len(files) : Rewrite(files[i], varMap).modified

(* C2: after a non-preview run has rewritten the files, a second run over   *)
(* the rewritten files records no occurrence of a value the first run       *)
(* selected, named and replaced.                                            *)
C2_SecondPassFindsNothingReplaced ==
    pass = 2 => \A k \in 1..Len(allValues) : allValues[k].value \notin hit[1]

\* the white and black hex values generateVarName names by colour
IsWhiteOrBlack(value) == toLowerCase(value) \in {"#fff", "#ffffff", "#000", "#000000"}

\* the selected colour values up to the k-th selected value that are not white or black
OrdinaryColorsUpTo(k) ==
    {j \in 1..k : repeated[j].type = "color" /\ ~IsWhiteOrBlack(repeated[j].value)}

(* C3: white and black are left out of the colour ordinal: the k-th         *)
(* selected colour value that is not white or black is named                *)
(* --{prefix}-color-k, however many white or black values come before it.   *)
C3_OrdinalSkipsWhiteAndBlack ==
    Named =>
        \A k \in 1..Len(repeated) :
            k \in OrdinaryColorsUpTo(k) =>
                NameOf(repeated[k].value)
                    = "--" \o opts.prefix \o "-color-"
                      \o NatToString(Cardinality(OrdinaryColorsUpTo(k)))

\* the selected values of type color
SelectedColors == {k \in 1..Len(repeated) : repeated[k].type = "color"}

(* C4: within a run no two distinct selected colour values get the same     *)
(* name, so the name -> value mapping holds one entry per selected colour.  *)
C4_ColorNamesUnique ==
    Named =>
        /\ \A j, k \in SelectedColors :
               j # k => NameOf(repeated[j].value) # NameOf(repeated[k].value)
        /\ Cardinality({n \in 1..Len(rootVars) :
                           \E k \in SelectedColors : rootVars[n].val = repeated[k].value})
             = Cardinality(SelectedColors)

(* C5: a rejected write of one file does not abort the run: the later       *)
(* files are still processed and the run ends with its summary.             *)
C5_WriteFailureDoesNotAbort ==
    writeFailed # {} =>
        /\ pc \in {"apply", "done"}
        /\ pc = "done" => Len(summary) = 1

\* the lines of the original file i, and of the file as it is now
OrigLines(i) == Split(orig[i])
NowLines(i) == Split(files[i])

(* C6: a line hit by a skip rule is ignored entirely: it contributes no     *)
(* occurrence to any extracted value, and the written file holds its text   *)
(* unchanged.                                                               *)
C6_SkippedLinesUntouched ==
    /\ \A k \in 1..Len(allValues) :
           \A n \in 1..Len(allValues[k].locations) :
               LET loc == allValues[k].locations[n]
               IN  ~IsSkipped(OrigLines(loc.file)[loc.line])
    /\ \A i \in updated :
           \A n \in 1..Len(OrigLines(i)) :
               IsSkipped(OrigLines(i)[n]) =>
                   NowLines(i)[Len(NowLines(i)) - Len(OrigLines(i)) + n] = OrigLines(i)[n]

(* C7: a preview-only run reports the same replacement counts and the same  *)
(* declaration block as a non-preview run on the same files and options.    *)
C7_PreviewReportsSameCounts ==
    (pc = "done" /\ opts.dryRun) =>
        /\ rootBlock = generateRootBlock(rootVars, opts.prefix)
        /\ summary = << ReplacementsOnOriginals >>

\* the values Select keeps at threshold m
SelectedAt(m) == {Select(allValues, m)[k].value : k \in 1..Len(Select(allValues, m))}

(* C8: for a fixed aggregated mapping the selection is monotone in the      *)
(* threshold (the set selected at m2 is a subset of the set selected at     *)
(* m1 <= m2), and a value is selected exactly when it has at least          *)
(* threshold occurrences.                                                   *)
C8_SelectionMonotone ==
    pc # "scan" =>
        /\ \A m1, m2 \in 1..(MaxMin + 1) :
               m1 <= m2 => SelectedAt(m2) \subseteq SelectedAt(m1)
        /\ \A m \in 1..(MaxMin + 1) :
               \A k \in 1..Len(allValues) :
                   (allValues[k].value \in SelectedAt(m))
                       <=> (Len(allValues[k].locations) >= m)
        /\ pc # "select" =>
               {repeated[k].value : k \in 1..Len(repeated)}
                   = {allValues[k].value : k \in
                          {j \in 1..Len(allValues) : Len(allValues[j].locations) >= opts.min}}

\* a selection that keeps some values and drops others
C8_Witness ==
    /\ pc = "report"
    /\ opts.min = 2
    /\ Len(repeated) >= 1
    /\ Len(repeated) < Len(allValues)
    /\ \E k \in 1..Len(allValues) : Len(allValues[k].locations) > 2

\* what the lines n.. of file f contribute, line by line, in the order found
RECURSIVE DiscoveredInLines(_, _, _, _)
DiscoveredInLines(lines, n, f, scope) ==
    IF n > Len(lines) THEN << >>
    ELSE LET found == LineValues(lines[n], scope)
             loc   == [file |-> f, line |-> n, property |-> PropertyOf(lines[n])]
         IN  [j \in 1..Len(found) |->
                 [value |-> found[j].value, type |-> found[j].type, loc |-> loc]]
             \o DiscoveredInLines(lines, n + 1, f, scope)

\* every occurrence of the first n files: file order, line order, classifier order
RECURSIVE Discovered(_)
Discovered(n) ==
    IF n = 0 THEN << >>
    ELSE Discovered(n - 1) \o DiscoveredInLines(Split(orig[n]), 1, n, opts.scope)

(* C9: aggregation keeps one entry per distinct value over all files; its   *)
(* category is the one of the first occurrence discovered (file order,      *)
(* line order, classifier order) and no later occurrence or merge changes   *)
(* it; the later occurrences are appended in discovery order.               *)
C9_FirstWriteWins ==
    LET d == Discovered(Scanned)
    IN  /\ \A j, k \in 1..Len(allValues) :
               allValues[j].value = allValues[k].value => j = k
        /\ {allValues[k].value : k \in 1..Len(allValues)} = {d[j].value : j \in 1..Len(d)}
        /\ \A k \in 1..Len(allValues) :
               LET Mine(t) == t.value = allValues[k].value
                   mine    == SelectSeq(d, Mine)
               IN  /\ allValues[k].type = mine[1].type
                   /\ allValues[k].locations = [j \in 1..Len(mine) |-> mine[j].loc]

\* a value whose later occurrence, in a later file, classifies differently
C9_Witness ==
    /\ pc = "select"
    /\ \E k \in 1..Len(allValues) :
           \E j \in 1..Len(Discovered(Scanned)) :
               /\ Discovered(Scanned)[j].value = allValues[k].value
               /\ Discovered(Scanned)[j].type # allValues[k].type
               /\ Discovered(Scanned)[j].loc.file > allValues[k].locations[1].file

\* one mapping entry applied to the literal segments only: the segments
\* after it (a reference stays one segment) and the number of matches
RECURSIVE SplitLiteral(_, _, _, _)
SplitLiteral(text, i, pattern, replacement) ==
    LET starts == {j \in i..Len(text) : RegExpEnd(pattern, 1, text, j) > j}
    IN  IF starts = {}
        THEN [segs |-> << [ref |-> FALSE, text |-> SubSeq(text, i, Len(text))] >>, count |-> 0]
        ELSE LET from == Least(starts)
                 rest == SplitLiteral(text, RegExpEnd(pattern, 1, text, from),
                                      pattern, replacement)
             IN  [segs  |-> << [ref |-> FALSE, text |-> SubSeq(text, i, from - 1)],
                               [ref |-> TRUE, text |-> replacement] >> \o rest.segs,
                  count |-> rest.count + 1]

RECURSIVE ProtectedEntry(_, _, _, _)
ProtectedEntry(segs, n, pattern, replacement) ==
    IF n > Len(segs) THEN [segs |-> << >>, count |-> 0]
    ELSE LET rest == ProtectedEntry(segs, n + 1, pattern, replacement)
             here == IF segs[n].ref THEN [segs |-> << segs[n] >>, count |-> 0]
                     ELSE SplitLiteral(segs[n].text, 1, pattern, replacement)
         IN  [segs |-> here.segs \o rest.segs, count |-> here.count + rest.count]

RECURSIVE ProtectedFrom(_, _)
ProtectedFrom(acc, k) ==
    IF k > Len(varMap) THEN acc
    ELSE LET r == ProtectedEntry(acc.segs, 1, Escape(varMap[k].key), Reference(varMap[k].val))
         IN  ProtectedFrom([segs |-> r.segs, count |-> acc.count + r.count], k + 1)

RECURSIVE Concat(_)
Concat(segs) == IF Len(segs) = 0 THEN "" ELSE segs[1].text \o Concat(Tail(segs))

\* the rewriting of a text in which no entry matches inside a reference
ProtectedRewrite(content) ==
    LET r == ProtectedFrom([segs |-> << [ref |-> FALSE, text |-> content] >>, count |-> 0], 1)
    IN  [content |-> Concat(r.segs), count |-> r.count]

(* C10: per file the sequential substitution only replaces literals of the  *)
(* original text: a later entry never matches inside a reference an earlier *)
(* entry inserted, so the written text is the original with its literal     *)
(* sites replaced by var(name), and the replacement count is the number of  *)
(* those sites.                                                             *)
C10_ReferencesNotRewritten ==
    /\ \A i \in updated :
           files[i] = WithRootBlock(ProtectedRewrite(orig[i]).content, rootBlock)
    /\ (pc = "done" /\ ~opts.dryRun) =>
           summary = << SumTo([i \in 1..Len(orig) |-> ProtectedRewrite(orig[i]).count],
                              Len(orig)) >>

====
